---- MODULE Spec2Model ----
(***************************************************************************)
(* A model of grev (src/lib.rs): the four public entry points that derive  *)
(* a git revision identifier and print Cargo directives to a writer.       *)
(*                                                                         *)
(* One call is one behaviour.  Init fixes the entry point, the build       *)
(* platform and the caller's arguments; every action is one git invocation *)
(* together with the processing the code performs up to the next           *)
(* invocation.  What git answers and whether a write to the writer         *)
(* succeeds are inputs, drawn afresh at every step.                        *)
(*                                                                         *)
(* A byte string is a sequence of atoms.  An atom stands for one byte      *)
(* (LF, SP, "+", "/", NUL, BAD) or for an indivisible run of ordinary      *)
(* bytes ("HEAD", ".git", "v1").  BAD is a byte that is not valid UTF-8.   *)
(***************************************************************************)
EXTENDS Integers, Sequences, FiniteSets, TLC

VARIABLES
  entry,      \* the public function that was called
  platform,   \* "unix" or "other": selects the cfg'd bytes_to_path
  env,        \* "git", or the invocation whose output is any byte string
  sources,    \* the `sources` handed to revision_impl/revision_bare_impl
  pc,         \* the git invocation the call performs next
  top_level,  \* list_tracked_objects: the working-tree root
  base,       \* the value revision_bare_impl returned
  sink,       \* the lines written to the writer, in order
  cmds,       \* the git invocations made, in order, with their outcome
  ret,        \* "running", "OkNone", "OkSome", "Err" or "panic"
  result,     \* the string in Ok(Some(_))
  err         \* the error in Err(_)

vars == <<entry, platform, env, sources, pc, top_level, base, sink, cmds,
          ret, result, err>>

----------------------------------------------------------------------------
(* Bounds of the model.                                                    *)

MaxSources == 2   \* paths a caller hands to git_revision
MaxFiles == 2     \* files `git ls-files` lists
MaxRaw == 2       \* length of an output that ignores git's format

----------------------------------------------------------------------------
(* Bytes.                                                                  *)

LF == "LF"
SP == "SP"
PLUS == "+"
SLASH == "/"
NUL == "NUL"
BAD == "0xFF"
REPLACEMENT == "U+FFFD"

Whitespace == {LF, SP}

BoundedSeq(S, n) == UNION {[1..k -> S] : k \in 0..n}

IsUtf8(bytes) == \A i \in 1..Len(bytes) : bytes[i] # BAD

IsSuffix(p, s) ==
  Len(p) <= Len(s) /\ SubSeq(s, Len(s) - Len(p) + 1, Len(s)) = p

\* str::trim_start and str::trim_end
RECURSIVE TrimStart(_)
TrimStart(s) ==
  IF s # <<>> /\ Head(s) \in Whitespace THEN TrimStart(Tail(s)) ELSE s

RECURSIVE TrimEnd(_)
TrimEnd(s) ==
  IF s # <<>> /\ s[Len(s)] \in Whitespace
  THEN TrimEnd(SubSeq(s, 1, Len(s) - 1))
  ELSE s

TrimStartOnly(s) == TrimStart(s)

\* str::trim
Trim(s) == TrimEnd(TrimStart(s))

\* Path::join (PathBuf::push): an absolute path replaces the base; otherwise
\* the path is appended, after a separator unless the base is empty or ends
\* in one.
\* (The separator and the absolute paths are those of unix on either
\* platform.)
Join(dir, path) ==
  IF path # <<>> /\ Head(path) = SLASH THEN path
  ELSE IF dir = <<>> \/ dir[Len(dir)] = SLASH THEN dir \o path
  ELSE dir \o <<SLASH>> \o path

\* Path::display: bytes that are not UTF-8 print as U+FFFD.
Display(path) ==
  [i \in 1..Len(path) |-> IF path[i] = BAD THEN REPLACEMENT ELSE path[i]]

----------------------------------------------------------------------------
(* Results and errors.                                                     *)

NoErr == [kind |-> "none", cmd |-> <<>>, code |-> "none"]

Ok(v) == [ok |-> TRUE, val |-> v, err |-> NoErr]

Err(e) == [ok |-> FALSE, val |-> <<>>, err |-> e]

GIT == "git"

\* git_command: "git" followed by the arguments
git_command(args) == <<GIT>> \o args

\* bytes_to_path, as built for the platform
bytes_to_path(bytes) ==
  IF platform = "unix" \/ IsUtf8(bytes)
  THEN Ok(bytes)
  ELSE Err([kind |-> "utf8-path", cmd |-> <<>>, code |-> "none"])

----------------------------------------------------------------------------
(* What a git process does: it cannot be launched, or it exits with a      *)
(* status and leaves bytes on its standard output.                         *)

ExitCodes == {"128", "none"}

LaunchFailure ==
  [launched |-> FALSE, success |-> FALSE, code |-> "none", stdout |-> <<>>]

ExitFailure(c) ==
  [launched |-> TRUE, success |-> FALSE, code |-> c, stdout |-> <<>>]

Success(out) ==
  [launched |-> TRUE, success |-> TRUE, code |-> "0", stdout |-> out]

Outcomes(outs) ==
  {LaunchFailure} \cup {ExitFailure(c) : c \in ExitCodes}
                  \cup {Success(o) : o \in outs}

git_raw_output_unchecked(args, o) ==
  IF ~o.launched
  THEN Err([kind |-> "launch", cmd |-> git_command(args), code |-> "none"])
  ELSE Ok(o.stdout)

\* git_raw_output: the captured standard output of a successful run
git_raw_output(args, o) ==
  IF ~o.launched
  THEN Err([kind |-> "launch", cmd |-> git_command(args), code |-> "none"])
  ELSE IF ~o.success
  THEN Err([kind |-> "exit", cmd |-> git_command(args), code |-> o.code])
  ELSE Ok(o.stdout)

\* git_output: git_raw_output, as a String
git_output(args, o) ==
  LET output == git_raw_output(args, o) IN
  IF ~output.ok THEN output
  ELSE IF ~IsUtf8(output.val)
  THEN Err([kind |-> "utf8", cmd |-> git_command(args), code |-> "none"])
  ELSE output

\* git_run: whether the run succeeded
git_run(args, o) ==
  IF ~o.launched
  THEN Err([kind |-> "launch", cmd |-> git_command(args), code |-> "none"])
  ELSE Ok(o.success)

----------------------------------------------------------------------------
(* The command lines.                                                      *)

ArgsGate == <<"rev-parse", "--git-dir">>

ArgsAbsoluteGitDir == <<"rev-parse", "--absolute-git-dir">>

ArgsDescribe == <<"describe", "--exact-match", "--tags", "HEAD">>

ArgsShortHash == <<"rev-parse", "--short", "HEAD">>

ArgsStatus == <<"status", "--porcelain", "--untracked-files=no">>

ArgsShowToplevel == <<"rev-parse", "--show-toplevel">>

ArgsLsFiles(top) == <<"-C">> \o top \o <<"ls-files", "--full-name", "-z">>

----------------------------------------------------------------------------
(* What git prints.  With env = "git" every output has the form git gives  *)
(* it: a path, a tag or a hash followed by a newline, porcelain status     *)
(* lines, NUL-terminated file names.  Otherwise env names one invocation,  *)
(* and the output of that one may also be any short byte string.           *)

Roots == {<<SLASH, "r">>, <<SLASH, BAD>>}

GitDirs == {Join(r, <<".git">>) : r \in Roots}

Tags == {<<"v1">>, <<"v1", PLUS>>, <<BAD>>}

Hashes == {<<"abc">>, <<"abcd">>}

FileNames == {<<"f">>, <<"-f">>, <<"a", SP, "b">>, <<BAD>>}

RECURSIVE Listing(_)
Listing(files) ==
  IF files = <<>> THEN <<>>
  ELSE Head(files) \o <<NUL>> \o Listing(Tail(files))

RawBytes == {LF, SP, NUL, "a"}

RawOutputs(name) == IF env = name THEN BoundedSeq(RawBytes, MaxRaw) ELSE {}

GitDirOutputs ==
  {d \o <<LF>> : d \in GitDirs} \cup RawOutputs("absolute-git-dir")

ToplevelOutputs ==
  {r \o <<LF>> : r \in Roots} \cup RawOutputs("show-toplevel")

TagOutputs == {t \o <<LF>> : t \in Tags} \cup RawOutputs("describe")

HashOutputs == {h \o <<LF>> : h \in Hashes} \cup RawOutputs("short-hash")

StatusOutputs ==
  {<<>>, <<SP, "M", SP, "f", LF>>, <<SP, "M", SP, BAD, LF>>}
    \cup RawOutputs("status")

LsFilesOutputs ==
  {Listing(fs) : fs \in BoundedSeq(FileNames, MaxFiles)}
    \cup RawOutputs("ls-files")

\* What a caller may hand to git_revision as `sources`.
SourcePaths == {<<"src", SLASH>>, <<SLASH, "r", SLASH, "x">>, <<BAD>>}

----------------------------------------------------------------------------
(* The lines the code writes.                                              *)

WarningNotInRepository ==
  [kind |-> "warning",
   text |-> <<"Not in a git repository; unable to embed git revision">>]

WarningGitFailedSameText(e) == WarningNotInRepository

\* anyhow's `{}` prints the outermost context: "failed to run `<command>`"
WarningGitFailed(e) ==
  [kind |-> "warning",
   text |-> <<"Failed to invoke git; unable to embed git revision: ",
              "failed to run">> \o e.cmd]

RerunIfChanged(path) == [kind |-> "rerun-if-changed", text |-> Display(path)]

PATHS_Reordered == <<<<"index">>, <<"HEAD">>, <<"refs", SLASH>>>>

PATHS == <<<<"HEAD">>, <<"index">>, <<"refs", SLASH>>>>

\* &bytes[..bytes.len() - 1]
DropLastByte(bytes) == SubSeq(bytes, 1, Len(bytes) - 1)

\* The lines print_rerun_if_changed writes for a metadata directory.
RerunLines(git_dir, srcs) ==
  [i \in 1..(Len(PATHS) + Len(srcs)) |->
     IF i <= Len(PATHS)
     THEN RerunIfChanged(Join(git_dir, PATHS[i]))
     ELSE RerunIfChanged(Join(git_dir, srcs[i - Len(PATHS)]))]

\* slice::split on NUL
RECURSIVE SplitNul(_, _)
SplitNul(bytes, cur) ==
  IF bytes = <<>> THEN <<cur>>
  ELSE IF Head(bytes) = NUL THEN <<cur>> \o SplitNul(Tail(bytes), <<>>)
  ELSE SplitNul(Tail(bytes), Append(cur, Head(bytes)))

\* list_tracked_objects: the non-empty segments of the listing
Objects(output) == SelectSeq(SplitNul(output, <<>>), LAMBDA o : o # <<>>)

\* revision_impl: `!local_changes.is_empty()`
Modified(local_changes) == local_changes # <<>>

ComposeDoubled(revision, modified) ==
  revision \o (IF modified THEN <<PLUS, PLUS>> ELSE <<>>)

\* revision_impl: format!("{}{}", revision, if modified { "+" } else { "" })
Compose(revision, modified) ==
  revision \o (IF modified THEN <<PLUS>> ELSE <<>>)

\* The closure an entry point hands to with_valid_git.
ListsTrackedObjects(e) == e = "git_revision_auto"

ChecksLocalChangesAlways(e) == TRUE

ChecksLocalChanges(e) == e # "git_revision_bare"

EntryPoints ==
  {"get_revision", "git_revision_bare", "git_revision", "git_revision_auto"}

IoError == [kind |-> "io", cmd |-> <<>>, code |-> "none"]

Invocation(name, args, o) ==
  [name |-> name, args |-> args, out |-> o, written |-> Len(sink)]

----------------------------------------------------------------------------
(* The call.                                                               *)

InitCall ==
  /\ entry \in EntryPoints
  /\ platform \in {"unix", "other"}
  /\ sources \in (IF entry = "git_revision"
                  THEN BoundedSeq(SourcePaths, MaxSources)
                  ELSE {<<>>})
  /\ pc = "gate"
  /\ top_level = <<>>
  /\ base = <<>>
  /\ sink = <<>>
  /\ cmds = <<>>
  /\ ret = "running"
  /\ result = <<>>
  /\ err = NoErr

Init == InitCall /\ env = "git"

RawInvocations ==
  {"absolute-git-dir", "show-toplevel", "ls-files", "describe", "short-hash",
   "status"}

InitRaw == InitCall /\ env \in RawInvocations

Fail(e) ==
  /\ ret' = "Err"
  /\ err' = e
  /\ pc' = "done"

Panic ==
  /\ ret' = "panic"
  /\ pc' = "done"
  /\ UNCHANGED err

ReturnSome(r) ==
  /\ ret' = "OkSome"
  /\ result' = r
  /\ pc' = "done"
  /\ UNCHANGED err

\* with_valid_git: the gate
with_valid_git ==
  /\ pc = "gate"
  /\ \E o \in Outcomes({<<>>}) :
       LET r == git_run(ArgsGate, o) IN
       /\ cmds' = Append(cmds, Invocation("gate", ArgsGate, o))
       /\ IF r.ok /\ r.val
          THEN /\ pc' = IF ListsTrackedObjects(entry) THEN "toplevel"
                        ELSE "rerun"
               /\ UNCHANGED <<sink, ret, err>>
          ELSE LET line == IF r.ok THEN WarningNotInRepository
                           ELSE WarningGitFailed(r.err) IN
               \E wrote \in BOOLEAN :
                 IF wrote
                 THEN /\ sink' = Append(sink, line)
                      /\ ret' = "OkNone"
                      /\ pc' = "done"
                      /\ UNCHANGED err
                 ELSE /\ Fail(IoError)
                      /\ UNCHANGED sink
  /\ UNCHANGED <<entry, platform, env, sources, top_level, base, result>>

\* list_tracked_objects: `git rev-parse --show-toplevel`
show_toplevel ==
  /\ pc = "toplevel"
  /\ \E o \in Outcomes(ToplevelOutputs) :
       LET r == git_raw_output(ArgsShowToplevel, o)
           p == bytes_to_path(DropLastByte(r.val)) IN
       /\ cmds' = Append(cmds,
                         Invocation("show-toplevel", ArgsShowToplevel, o))
       /\ IF ~r.ok THEN Fail(r.err) /\ UNCHANGED top_level
          ELSE IF Len(r.val) = 0 THEN Panic /\ UNCHANGED top_level
          ELSE IF ~p.ok THEN Fail(p.err) /\ UNCHANGED top_level
          ELSE /\ top_level' = p.val
               /\ pc' = "lsfiles"
               /\ UNCHANGED <<ret, err>>
  /\ UNCHANGED <<entry, platform, env, sources, base, sink, result>>

\* list_tracked_objects: `git -C <top-level> ls-files --full-name -z`
ls_files ==
  /\ pc = "lsfiles"
  /\ \E o \in Outcomes(LsFilesOutputs) :
       LET args == ArgsLsFiles(top_level)
           r == git_raw_output(args, o)
           objects == Objects(r.val)
           bad == {i \in 1..Len(objects) : ~bytes_to_path(objects[i]).ok} IN
       /\ cmds' = Append(cmds, Invocation("ls-files", args, o))
       /\ IF ~r.ok THEN Fail(r.err) /\ UNCHANGED sources
          ELSE IF bad # {}
          THEN /\ Fail(bytes_to_path(objects[CHOOSE i \in bad : TRUE]).err)
               /\ UNCHANGED sources
          ELSE /\ sources' = [i \in 1..Len(objects) |->
                                Join(top_level, objects[i])]
               /\ pc' = "rerun"
               /\ UNCHANGED <<ret, err>>
  /\ UNCHANGED <<entry, platform, env, top_level, base, sink, result>>

\* print_rerun_if_changed
print_rerun_if_changed ==
  /\ pc = "rerun"
  /\ \E o \in Outcomes(GitDirOutputs) :
       LET r == git_raw_output(ArgsAbsoluteGitDir, o)
           git_dir == bytes_to_path(DropLastByte(r.val))
           lines == RerunLines(git_dir.val, sources) IN
       /\ cmds' = Append(cmds,
                         Invocation("absolute-git-dir", ArgsAbsoluteGitDir, o))
       /\ IF ~r.ok THEN Fail(r.err) /\ UNCHANGED sink
          ELSE IF Len(r.val) = 0 THEN Panic /\ UNCHANGED sink
          ELSE IF ~git_dir.ok THEN Fail(git_dir.err) /\ UNCHANGED sink
          ELSE \E k \in 0..Len(lines) :
                 /\ sink' = sink \o SubSeq(lines, 1, k)
                 /\ IF k < Len(lines)
                    THEN Fail(IoError)
                    ELSE pc' = "describe" /\ UNCHANGED <<ret, err>>
  /\ UNCHANGED <<entry, platform, env, sources, top_level, base, result>>

\* revision_bare_impl returns Ok(Some(revision.trim())) to its caller:
\* the entry point's closure, or revision_impl, which goes on to git status.
ReturnBare(revision) ==
  /\ base' = Trim(revision)
  /\ IF ChecksLocalChanges(entry)
     THEN pc' = "status" /\ UNCHANGED <<ret, result, err>>
     ELSE ReturnSome(Trim(revision))

\* revision_bare_impl: `git describe --exact-match --tags HEAD`
describe ==
  /\ pc = "describe"
  /\ \E o \in Outcomes(TagOutputs) :
       LET tag == git_output(ArgsDescribe, o) IN
       /\ cmds' = Append(cmds, Invocation("describe", ArgsDescribe, o))
       /\ IF tag.ok THEN ReturnBare(tag.val)
          ELSE /\ pc' = "shorthash"
               /\ UNCHANGED <<base, ret, result, err>>
  /\ UNCHANGED <<entry, platform, env, sources, top_level, sink>>

\* revision_bare_impl: `git rev-parse --short HEAD`
short_hash ==
  /\ pc = "shorthash"
  /\ \E o \in Outcomes(HashOutputs) :
       LET r == git_output(ArgsShortHash, o) IN
       /\ cmds' = Append(cmds, Invocation("short-hash", ArgsShortHash, o))
       /\ IF r.ok THEN ReturnBare(r.val)
          ELSE Fail(r.err) /\ UNCHANGED <<base, result>>
  /\ UNCHANGED <<entry, platform, env, sources, top_level, sink>>

\* revision_impl: `git status --porcelain --untracked-files=no`
status ==
  /\ pc = "status"
  /\ \E o \in Outcomes(StatusOutputs) :
       LET local_changes == git_raw_output(ArgsStatus, o) IN
       /\ cmds' = Append(cmds, Invocation("status", ArgsStatus, o))
       /\ IF local_changes.ok
          THEN ReturnSome(Compose(base, Modified(local_changes.val)))
          ELSE Fail(local_changes.err) /\ UNCHANGED result
  /\ UNCHANGED <<entry, platform, env, sources, top_level, base, sink>>

Next ==
  \/ with_valid_git
  \/ show_toplevel
  \/ ls_files
  \/ print_rerun_if_changed
  \/ describe
  \/ short_hash
  \/ status

Spec == Init /\ [][Next]_vars

SpecRaw == InitRaw /\ [][Next]_vars

----------------------------------------------------------------------------
(* Reading a finished or running call.                                     *)

Returned == pc = "done"

Has(name) == \E i \in DOMAIN cmds : cmds[i].name = name

Cmd(name) == cmds[CHOOSE i \in DOMAIN cmds : cmds[i].name = name]

Out(name) == Cmd(name).out

GatePassed == Has("gate") /\ Out("gate").launched /\ Out("gate").success

GateNotLaunched == Has("gate") /\ ~Out("gate").launched

GateExitedNonZero ==
  Has("gate") /\ Out("gate").launched /\ ~Out("gate").success

AllWhitespace(s) == \A i \in 1..Len(s) : s[i] \in Whitespace

\* s is out without its leading and trailing whitespace
IsTrimOf(s, out) ==
  /\ s # <<>> => Head(s) \notin Whitespace /\ s[Len(s)] \notin Whitespace
  /\ \E i \in 0..Len(out) :
       /\ i + Len(s) <= Len(out)
       /\ SubSeq(out, i + 1, i + Len(s)) = s
       /\ AllWhitespace(SubSeq(out, 1, i))
       /\ AllWhitespace(SubSeq(out, i + Len(s) + 1, Len(out)))

\* the invocation ran, exited with success and printed UTF-8
PrintedText(name) ==
  Has(name) /\ Out(name).launched /\ Out(name).success
            /\ IsUtf8(Out(name).stdout)

\* Path::parent of a path that does not end in a separator
Parent(path) ==
  LET last == CHOOSE i \in 1..Len(path) :
                /\ path[i] = SLASH
                /\ \A j \in (i + 1)..Len(path) : path[j] # SLASH
  IN IF last = 1 THEN <<SLASH>> ELSE SubSeq(path, 1, last - 1)

\* the metadata directory git printed, without the newline that ends it
ReportedGitDir ==
  LET out == Out("absolute-git-dir").stdout IN
  IF out # <<>> /\ out[Len(out)] = LF THEN SubSeq(out, 1, Len(out) - 1)
  ELSE out

UsesSources == entry \in {"git_revision", "git_revision_auto"}

AutoVariant == entry \in {"git_revision_auto", "git_revision", "get_revision"}

\* a git invocation after the gate, other than describe, that failed: it
\* did not launch, exited non-zero, or printed what the code cannot decode
Failed(c) ==
  \/ ~c.out.launched
  \/ ~c.out.success
  \/ c.name = "short-hash" /\ ~IsUtf8(c.out.stdout)
  \/ /\ c.name \in {"absolute-git-dir", "show-toplevel", "ls-files"}
     /\ platform = "other"
     /\ ~IsUtf8(c.out.stdout)

HardFailure ==
  \E i \in 2..Len(cmds) : cmds[i].name # "describe" /\ Failed(cmds[i])

----------------------------------------------------------------------------
(* The claims.                                                             *)

\* C1: when the gate probe cannot be launched or exits non-zero, the call
\* returns Ok(None), not an error, and invokes no further git command.
C1_GateFailureReturnsNone ==
  (Returned /\ (GateNotLaunched \/ GateExitedNonZero))
    => (ret = "OkNone" /\ Len(cmds) = 1)

\* C2: an auto variant that returns Some(r) has run git status, and r is the
\* base followed by one "+" when status printed something, the base alone
\* when it printed nothing.
C2_MarkerFollowsStatus ==
  (ret = "OkSome" /\ AutoVariant) =>
    /\ Has("status")
    /\ Out("status").launched /\ Out("status").success
    /\ result = IF Out("status").stdout # <<>> THEN base \o <<PLUS>> ELSE base

C2_Witness ==
  /\ ret = "OkSome"
  /\ entry = "git_revision_auto"
  /\ Out("status").stdout # <<>>
  /\ base = <<"v1", PLUS>>
  /\ result = <<"v1", PLUS, PLUS>>

\* C3: past the gate the base is the trimmed output of describe when describe
\* succeeds with UTF-8 output; after any failure of describe the short hash
\* is asked for, the base is its trimmed output, and its failure is an error.
C3_BaseIsTagOrShortHash ==
  /\ Has("short-hash") => Has("describe") /\ ~PrintedText("describe")
  /\ (Has("describe") /\ ~PrintedText("describe") /\ pc # "shorthash")
       => Has("short-hash")
  /\ (Has("short-hash") /\ ~PrintedText("short-hash")) => ret = "Err"
  /\ ret = "OkSome" =>
       /\ Has("describe")
       /\ IF PrintedText("describe")
          THEN IsTrimOf(base, Out("describe").stdout)
          ELSE /\ PrintedText("short-hash")
               /\ IsTrimOf(base, Out("short-hash").stdout)

C3_Witness ==
  /\ ret = "OkSome"
  /\ Out("describe").success
  /\ ~IsUtf8(Out("describe").stdout)
  /\ Out("short-hash").stdout = <<"abc", LF>>
  /\ base = <<"abc">>

\* C4: git_revision_bare never runs git status, and what it returns is the
\* trimmed base with nothing appended.
C4_BareHasNoMarker ==
  entry = "git_revision_bare" =>
    /\ ~Has("status")
    /\ ret = "OkSome" =>
         /\ result = base
         /\ IsTrimOf(result, IF PrintedText("describe")
                             THEN Out("describe").stdout
                             ELSE Out("short-hash").stdout)

C4_Witness ==
  /\ entry = "git_revision_bare"
  /\ ret = "OkSome"
  /\ result = <<"v1">>

\* C5: a call that returns Some has written exactly the directives for
\* <git-dir>/HEAD, <git-dir>/index, <git-dir>/refs/ and then one directive
\* per source path, in order, all of them before describe was invoked.
C5_DirectivesInOrder ==
  /\ Has("describe") => Cmd("describe").written = Len(sink)
  /\ ret = "OkSome" =>
       LET gd == ReportedGitDir IN
       /\ Len(sink) = 3 + Len(sources)
       /\ \A i \in DOMAIN sink : sink[i].kind = "rerun-if-changed"
       /\ sink[1].text = Display(gd \o <<SLASH, "HEAD">>)
       /\ sink[2].text = Display(gd \o <<SLASH, "index">>)
       /\ sink[3].text = Display(gd \o <<SLASH, "refs", SLASH>>)
       /\ \A i \in DOMAIN sources :
            IsSuffix(Display(sources[i]), sink[3 + i].text)

C5_Witness ==
  /\ ret = "OkSome"
  /\ entry = "git_revision_auto"
  /\ Len(sources) = 2
  /\ sources[1] # sources[2]
  /\ Len(sink) = 5

\* C6 as stated: past the gate the call returns an error when a git
\* invocation other than describe failed, and Some(revision) otherwise.
C6_ErrorIffGitFailure ==
  (Returned /\ GatePassed) =>
    IF HardFailure THEN ret = "Err" ELSE ret = "OkSome"

\* C6: past the gate the call never returns None; it returns an error when a
\* git invocation other than describe failed or when a directive could not be
\* written, and Some(revision) otherwise.
C6_ErrorIffGitOrWriteFailure ==
  (Returned /\ GatePassed) =>
    IF HardFailure
    THEN ret = "Err" /\ err.kind \in {"launch", "exit", "utf8", "utf8-path"}
    ELSE IF Has("absolute-git-dir") /\ Len(sink) < 3 + Len(sources)
    THEN ret = "Err" /\ err = IoError
    ELSE ret = "OkSome"

C6_Witness ==
  /\ Returned /\ GatePassed
  /\ Has("status")
  /\ Out("status").launched /\ ~Out("status").success
  /\ ret = "Err"
  /\ err.kind = "exit"

\* C7 as stated: each degraded path writes exactly one warning line, the two
\* paths with different texts, and nothing else; a call that passes the gate
\* writes no warning.
C7_OneWarningWhenDegraded ==
  /\ GateExitedNonZero =>
       /\ Len(sink) = 1
       /\ sink[1].kind = "warning"
       /\ sink[1].text =
            <<"Not in a git repository; unable to embed git revision">>
  /\ GateNotLaunched =>
       /\ Len(sink) = 1
       /\ sink[1].kind = "warning"
       /\ sink[1].text[1] =
            "Failed to invoke git; unable to embed git revision: "
  /\ GatePassed => \A i \in DOMAIN sink : sink[i].kind # "warning"

\* C7: a degraded path writes nothing but its warning line, at most once:
\* the line is there whenever the call returns Ok(None), and the sink is empty
\* when the write failed; the two paths use different texts; a call that
\* passes the gate writes no warning.
C7_WarningOnlyWhenDegraded ==
  /\ (GateExitedNonZero \/ GateNotLaunched) =>
       /\ Len(sink) <= 1
       /\ ret = "OkNone" => Len(sink) = 1
       /\ Len(sink) = 1 =>
            /\ sink[1].kind = "warning"
            /\ IF GateNotLaunched
               THEN sink[1].text[1] =
                      "Failed to invoke git; unable to embed git revision: "
               ELSE sink[1].text =
                      <<"Not in a git repository; unable to embed git revision">>
  /\ GatePassed => \A i \in DOMAIN sink : sink[i].kind # "warning"

C7_Witness ==
  /\ GateNotLaunched
  /\ ret = "OkNone"
  /\ Len(sink) = 1
  /\ sink[1].kind = "warning"

\* C8: every directive for an extra source path names that path joined
\* against the parent of the metadata directory.
C8_SourcesJoinWorkingTreeRoot ==
  (ret = "OkSome" /\ UsesSources) =>
    \A i \in DOMAIN sources :
      sink[3 + i].text = Display(Join(Parent(ReportedGitDir), sources[i]))

\* C9: the base of every returned revision is non-empty and has no leading
\* or trailing whitespace, whatever describe and the short hash printed.
C9_BaseNonEmptyAndTrimmed ==
  ret = "OkSome" =>
    /\ base # <<>>
    /\ Head(base) \notin Whitespace
    /\ base[Len(base)] \notin Whitespace

\* C10: no call panics, and the path taken from `git rev-parse
\* --absolute-git-dir` or `--show-toplevel` loses a trailing newline only.
C10_NoPanicNoByteDropped ==
  /\ ret # "panic"
  /\ (sink # <<>> /\ sink[1].kind = "rerun-if-changed") =>
       sink[1].text = Display(Join(ReportedGitDir, <<"HEAD">>))
  /\ Has("ls-files") =>
       LET out == Out("show-toplevel").stdout IN
       top_level = IF out[Len(out)] = LF THEN SubSeq(out, 1, Len(out) - 1)
                   ELSE out

====
